---- MODULE Spec2Model ----
(***************************************************************************)
(* Model of utils/update_utils.py: the version queries last_git_tag and    *)
(* last_website_version, the sort keys default_sort_key and url_verifier,  *)
(* and the command line interface parse_arguments / main.                  *)
(*                                                                         *)
(* A Python string is a sequence of one-character strings.  An optional    *)
(* string (a regex group that may be None) is a record [some, s].  A sort  *)
(* key is a record [ok, t]: ok = FALSE is the value False returned by      *)
(* url_verifier's modified_key_func, otherwise t is the tuple returned by  *)
(* default_sort_key, a sequence of components [isint, n, s].               *)
(***************************************************************************)
EXTENDS Integers, Sequences, FiniteSets, TLC

\* ---------------------------------------------------------------- bounds
\* Longest tag listing / list of selected html tags.
MaxCandidates == 4
\* Largest number of comma separated values given to an action option.
MaxValues == 5
\* Longest tuple of regex groups handed to default_sort_key on its own.
MaxGroups == 3
\* Most extensions appended to a file name handed to remove_path_components.
MaxExtensions == 2

\* ------------------------------------------------------- program constants
MAX_TRIES_FOR_PAGE_DOWNLOAD == 3
WAIT_TIME_BETWEEN_PAGE_DOWNLOAD_TRIES == 10
\* "gzip", "tar", "tgz", "tar.gz", "tar.bz2", "tar.xz", "zip", in this order
KNOWN_FILE_EXTENSIONS ==
    << <<"g","z","i","p">>, <<"t","a","r">>, <<"t","g","z">>,
       <<"t","a","r",".","g","z">>, <<"t","a","r",".","b","z","2">>,
       <<"t","a","r",".","x","z">>, <<"z","i","p">> >>
\* the slice bound of last_git_tag, len("refs/tags/")
RefsTags == <<"r","e","f","s","/","t","a","g","s","/">>
\* status code of a successful response
HTTP_OK == 200
\* the slice of multiple_versions: last_tags[: min(3, len(last_tags))]
TopCount == 3

\* ------------------------------------------------------------ python str
Digits == {"0","1","2","3","4","5","6","7","8","9"}

\* the characters of the model in code point order
Alphabet == <<"-", ".", "/", "0","1","2","3","4","5","6","7","8","9",
              "V", "^", "a","b","c","d","e","f","g","h","i","j","k","l","m",
              "n","o","p","q","r","s","t","u","v","w","x","y","z","{","}">>

\* ord(c), up to the order it induces
Ord(c) == CHOOSE i \in 1..Len(Alphabet) : Alphabet[i] = c

\* int(c) of a one-digit string
DigitVal(c) == Ord(c) - Ord("0")

\* s[i:] with i counted from 1
Suffix(s, i) == SubSeq(s, i, Len(s))

\* s.startswith(p)
StartsWith(s, p) == Len(p) <= Len(s) /\ SubSeq(s, 1, Len(p)) = p

\* s.endswith(p)
EndsWith(s, p) == Len(p) <= Len(s) /\ Suffix(s, Len(s) - Len(p) + 1) = p

\* s.isdigit(): every character is a digit and there is at least one
IsDigit(s) == Len(s) > 0 /\ \A i \in 1..Len(s) : s[i] \in Digits

\* int(s) of a digit string
RECURSIVE ToInt(_)
ToInt(s) == IF Len(s) = 0 THEN 0
            ELSE 10 * ToInt(SubSeq(s, 1, Len(s) - 1)) + DigitVal(s[Len(s)])

\* a < b on str: the first differing character decides, a proper prefix is less
StrLess(a, b) ==
    LET common == {i \in 1..Len(a) : i <= Len(b) /\ a[i] # b[i]}
    IN  IF common = {} THEN Len(a) < Len(b)
        ELSE LET i == CHOOSE j \in common : \A k \in common : j <= k
             IN  Ord(a[i]) < Ord(b[i])

\* os.path.basename(filepath): what follows the last "/"
Basename(filepath) ==
    LET slashes == {i \in 1..Len(filepath) : filepath[i] = "/"}
    IN  IF slashes = {} THEN filepath
        ELSE LET last == CHOOSE i \in slashes : \A j \in slashes : j <= i
             IN  Suffix(filepath, last + 1)

\* ----------------------------------------------------------- VersionMatch
\* None and a present value of an Optional[Text]
None == [some |-> FALSE, s |-> <<>>]
Some(s) == [some |-> TRUE, s |-> s]

\* VersionMatch(complete_match, groups)
VersionMatch(complete_match, groups) ==
    [complete_match |-> complete_match, groups |-> groups]

\* the result of re.search when nothing matches
NoMatch == [matched |-> FALSE, group |-> <<>>, groups |-> <<>>]

\* s.split(".")
RECURSIVE SplitDots(_)
SplitDots(s) ==
    LET dots == {i \in 1..Len(s) : s[i] = "."}
    IN  IF dots = {} THEN <<s>>
        ELSE LET d == CHOOSE i \in dots : \A j \in dots : i <= j
             IN  <<SubSeq(s, 1, d - 1)>> \o SplitDots(Suffix(s, d + 1))

\* A version pattern is a literal prefix followed by the regular expression
\* [vV]?(\d+)\.(\d+)(?:\.(\d+))?$ ; capture = FALSE is the same expression
\* written without capturing groups, as a caller may pass it.
DEFAULT_VERSION_PATTERN == [literal |-> <<>>, capture |-> TRUE]
NoGroupPattern == [literal |-> <<>>, capture |-> FALSE]

\* "refs/tags/{}".format(tag_pattern)
SearchPattern(tag_pattern) ==
    [literal |-> RefsTags \o tag_pattern.literal, capture |-> tag_pattern.capture]

\* The pattern matched at the start of s and up to its end ($): the literal,
\* an optional v or V, then two or three dot separated runs of digits.
MatchAt(pattern, s) ==
    IF ~StartsWith(s, pattern.literal) THEN NoMatch
    ELSE
      LET rest == Suffix(s, Len(pattern.literal) + 1)
          body == IF Len(rest) > 0 /\ rest[1] \in {"v", "V"} THEN Tail(rest) ELSE rest
          parts == SplitDots(body)
      IN  IF Len(parts) \in {2, 3} /\ \A i \in 1..Len(parts) : IsDigit(parts[i])
          THEN [matched |-> TRUE,
                group |-> s,
                groups |-> IF ~pattern.capture THEN <<>>
                           ELSE <<Some(parts[1]), Some(parts[2]),
                                  IF Len(parts) = 3 THEN Some(parts[3]) ELSE None>>]
          ELSE NoMatch

\* re.search(pattern, s): the match at the leftmost position that has one
Search(pattern, s) ==
    LET starts == {i \in 1..Len(s) : MatchAt(pattern, Suffix(s, i)).matched}
    IN  IF starts = {} THEN NoMatch
        ELSE LET i == CHOOSE j \in starts : \A k \in starts : j <= k
             IN  MatchAt(pattern, Suffix(s, i))

\* ---------------------------------------------------------------- sort keys
IntComp(n) == [isint |-> TRUE, n |-> n, s |-> <<>>]
StrComp(s) == [isint |-> FALSE, n |-> 0, s |-> s]

\* the groups that are not None, in order
RECURSIVE NotNone(_)
NotNone(groups) ==
    IF Len(groups) = 0 THEN <<>>
    ELSE (IF Head(groups).some THEN <<Head(groups).s>> ELSE <<>>) \o NotNone(Tail(groups))

\* the conversion to int forgotten
ComponentAsText(c) == StrComp(c)

\* int(c) if c.isdigit() else c
Component(c) == IF IsDigit(c) THEN IntComp(ToInt(c)) ELSE StrComp(c)

\* default_sort_key(elem)
default_sort_key(elem) ==
    LET version_components == NotNone(elem.groups)
    IN  [i \in 1..Len(version_components) |-> Component(version_components[i])]

\* the value False of modified_key_func, and a tuple as a key
FalseKey == [ok |-> FALSE, t |-> <<>>]
TupleKey(t) == [ok |-> TRUE, t |-> t]

\* modified_key_func(elem) given the status code of its HEAD request
modified_key_func(elem, status_code) ==
    IF status_code = HTTP_OK THEN TupleKey(default_sort_key(elem)) ELSE FalseKey

\* a < b on tuple components; int < str is what Python 2 answers
CompLess(a, b) ==
    IF a.isint /\ b.isint THEN a.n < b.n
    ELSE IF ~a.isint /\ ~b.isint THEN StrLess(a.s, b.s)
    ELSE a.isint

\* the first position where two tuples differ, 0 when one is a prefix of the other
FirstDiff(x, y) ==
    LET diff == {i \in 1..Len(x) : i <= Len(y) /\ x[i] # y[i]}
    IN  IF diff = {} THEN 0 ELSE CHOOSE i \in diff : \A j \in diff : i <= j

\* x < y on tuples
TupleLess(x, y) ==
    IF FirstDiff(x, y) = 0 THEN Len(x) < Len(y)
    ELSE CompLess(x[FirstDiff(x, y)], y[FirstDiff(x, y)])

\* a < b on keys; False < tuple is what Python 2 answers (numbers sort first)
KeyLess(a, b) ==
    IF a.ok /\ b.ok THEN TupleLess(a.t, b.t)
    ELSE ~a.ok /\ b.ok

\* Whether comparing the keys a and b raises TypeError: in Python 3 a bool has
\* no order with a tuple, nor an int with a str
CompareRaises(py2, a, b) ==
    /\ ~py2
    /\ \/ a.ok # b.ok
       \/ /\ a.ok /\ b.ok
          /\ FirstDiff(a.t, b.t) # 0
          /\ a.t[FirstDiff(a.t, b.t)].isint # b.t[FirstDiff(a.t, b.t)].isint

\* ------------------------------------------------------- website candidates
\* the dot of the extension left in place: basename[: -len(file_extension)]
remove_path_components_keeps_dot(filepath) ==
    LET basename == Basename(filepath)
        hits == {i \in 1..Len(KNOWN_FILE_EXTENSIONS) :
                    EndsWith(basename, <<".">> \o KNOWN_FILE_EXTENSIONS[i])}
    IN  IF hits = {} THEN basename
        ELSE LET i == CHOOSE j \in hits : \A k \in hits : j <= k
             IN  SubSeq(basename, 1, Len(basename) - Len(KNOWN_FILE_EXTENSIONS[i]))

\* remove_path_components(filepath): the first known extension the basename
\* ends with is cut off (for ... break), the basename is returned otherwise
remove_path_components(filepath) ==
    LET basename == Basename(filepath)
        hits == {i \in 1..Len(KNOWN_FILE_EXTENSIONS) :
                    EndsWith(basename, <<".">> \o KNOWN_FILE_EXTENSIONS[i])}
    IN  IF hits = {} THEN basename
        ELSE LET i == CHOOSE j \in hits : \A k \in hits : j <= k
             IN  SubSeq(basename, 1, Len(basename) - (Len(KNOWN_FILE_EXTENSIONS[i]) + 1))

\* ------------------------------------------------------------- selection
\* the loop of last_git_tag over all_tags: the matches, in listing order
RECURSIVE FilterTags(_, _)
FilterTags(search_pattern, all_tags) ==
    IF Len(all_tags) = 0 THEN <<>>
    ELSE LET match_obj == Search(search_pattern, Head(all_tags))
         IN  (IF match_obj.matched
              THEN <<VersionMatch(Suffix(match_obj.group, Len(RefsTags) + 1), match_obj.groups)>>
              ELSE <<>>) \o FilterTags(search_pattern, Tail(all_tags))

\* the loop of last_website_version over version_texts
RECURSIVE FilterVersions(_, _)
FilterVersions(version_pattern, version_texts) ==
    IF Len(version_texts) = 0 THEN <<>>
    ELSE LET match_obj == Search(version_pattern, remove_path_components(Head(version_texts)))
         IN  (IF match_obj.matched
              THEN <<VersionMatch(match_obj.group, match_obj.groups)>>
              ELSE <<>>) \o FilterVersions(version_pattern, Tail(version_texts))

\* max that lets a later element of equal key replace the maximum kept so far
GreaterOrEqual(key, max_key) == ~KeyLess(key, max_key)

\* max turned into min
GreaterFlipped(key, max_key) == KeyLess(key, max_key)

\* Whether max's comparison key > max_key replaces the maximum kept so far
Greater(key, max_key) == KeyLess(max_key, key)

\* Whether sorted raises TypeError: it has to compare some False with some
\* tuple when both occur among the keys (the keys of this model are False or
\* tuples of int)
SortRaises(py2, ks) ==
    \E i, j \in 1..Len(ks) : ks[i].ok # ks[j].ok /\ CompareRaises(py2, ks[i], ks[j])

\* an ascending sort read backwards: equal keys come out latest first
RankOfReversedList(ks, i) ==
    Cardinality({j \in 1..Len(ks) : KeyLess(ks[i], ks[j])})
    + Cardinality({j \in (i + 1)..Len(ks) : ~KeyLess(ks[i], ks[j]) /\ ~KeyLess(ks[j], ks[i])})
    + 1

\* The place of element i after sorted(..., reverse=True): behind the elements
\* of greater key and behind the earlier elements of equal key (the sort is
\* stable)
Rank(ks, i) ==
    Cardinality({j \in 1..Len(ks) : KeyLess(ks[i], ks[j])})
    + Cardinality({j \in 1..(i - 1) : ~KeyLess(ks[i], ks[j]) /\ ~KeyLess(ks[j], ks[i])})
    + 1

\* sorted(elems, key=sort_key, reverse=True), as the indices of the elements
Sorted(ks) == [r \in 1..Len(ks) |-> CHOOSE i \in 1..Len(ks) : Rank(ks, i) = r]

\* how many elements the slice [: min(3, len(last_tags))] keeps
SliceLen(n) == IF TopCount < n THEN TopCount ELSE n

\* [last_tag.complete_match for last_tag in last_tags[: min(3, len(last_tags))]]
TopMatches(elems, ks) ==
    [r \in 1..SliceLen(Len(elems)) |-> elems[Sorted(ks)[r]].complete_match]

\* a returned list and the return value None
Found(versions) == [found |-> TRUE, versions |-> versions]
NotFound == [found |-> FALSE, versions |-> <<>>]

\* ------------------------------------------------------------------ inputs
\* a line of git ls-remote --tags: object name, tab, ref
Line(name) == <<"c", "0", "\t">> \o RefsTags \o name

\* The tags a remote may list: v1.0.0, v1.2.0, v1.10.0, also 1.10.0 (the key of
\* v1.10.0) and v1.2 (two components), and the peeled entry v1.10.0^{} that
\* the pattern rejects.
TagPool ==
    { Line(<<"v","1",".","0",".","0">>), Line(<<"v","1",".","2",".","0">>),
      Line(<<"v","1",".","1","0",".","0">>), Line(<<"1",".","1","0",".","0">>),
      Line(<<"v","1",".","2">>),
      Line(<<"v","1",".","1","0",".","0","^","{","}">>) }

\* The texts the selected html tags may hold: dl/project-2.3.1.tar.gz
\* (2, 3, 1), v2.3.zip (2, 3), 2.10 and a/v2.10.tar (both (2, 10)), and
\* README.txt that the pattern rejects.
TextPool ==
    { <<"d","l","/","p","r","o","j","e","c","t","-","2",".","3",".","1",".","t","a","r",".","g","z">>,
      <<"v","2",".","3",".","z","i","p">>,
      <<"2",".","1","0">>,
      <<"a","/","v","2",".","1","0",".","t","a","r">>,
      <<"R","E","A","D","M","E",".","t","x","t">> }

\* the listings of at most MaxCandidates distinct entries of a pool
Listings(pool) ==
    UNION { {l \in [1..n -> pool] : \A i, j \in 1..n : i # j => l[i] # l[j]} :
            n \in 0..MaxCandidates }

\* the status codes a server answers with
StatusCodes == {HTTP_OK, 404}

\* The value strings of the two action options, split at the commas. "" is
\* an empty segment, "P" a pattern without groups, "U" a url to verify.
GitValueLists ==
    { [i \in 1..n |-> IF i = 1 THEN "repo" ELSE IF i = 2 THEN p
                      ELSE IF i = 3 THEN u ELSE "x"] :
      n \in 1..MaxValues, p \in {"", "P"}, u \in {"", "U"} }
WebValueLists ==
    { [i \in 1..n |-> IF i = 1 THEN "url" ELSE IF i = 2 THEN "sel"
                      ELSE IF i = 3 THEN "" ELSE IF i = 4 THEN p ELSE "x"] :
      n \in 1..MaxValues, p \in {"", "P"} }

\* an option that is not given (argparse leaves None) and one that is
NotGiven == [given |-> FALSE, values |-> <<>>]
Given(values) == [given |-> TRUE, values |-> values]

\* The command lines: no action, one action, or both actions (then with the
\* shortest and the longest value lists only).
CommandLines ==
    { [last_git_tag |-> g, last_website_version |-> w, multi_version |-> m] :
      g \in {NotGiven} \cup {Given(v) : v \in GitValueLists},
      w \in {NotGiven},
      m \in BOOLEAN }
    \cup
    { [last_git_tag |-> g, last_website_version |-> w, multi_version |-> m] :
      g \in {NotGiven},
      w \in {Given(v) : v \in WebValueLists},
      m \in BOOLEAN }
    \cup
    { [last_git_tag |-> g, last_website_version |-> w, multi_version |-> m] :
      g \in {Given(v) : v \in {l \in GitValueLists :
                 Len(l) \in {1, MaxValues} /\ \A i \in 2..Len(l) : l[i] \in {"", "x"}}},
      w \in {Given(v) : v \in {l \in WebValueLists :
                 Len(l) \in {2, MaxValues} /\ \A i \in 3..Len(l) : l[i] \in {"", "x"}}},
      m \in BOOLEAN }

\* ------------------------------------------------------------------- state
VARIABLES
    PY2,        \* sys.version_info.major < 3
    argv,       \* the command line, as argparse's namespace
    pc,         \* where the run is
    call,       \* the source function main calls, with its parameters
    listing,    \* all_tags / version_texts
    elems,      \* filtered_tags / filtered_versions
    keys,       \* the sort keys computed so far, keys[i] of elems[i]
    best,       \* max: the index of the maximum kept so far
    output,     \* what the source function returned
    raised,     \* the exception that ended the run, "" when none did
    stdout,     \* the lines printed to standard output
    exit_code,  \* the exit status, -1 while the run lasts
    git_calls,  \* how many times git ls-remote was run
    gets,       \* the status codes of the GET requests, in order
    sleeps,     \* how many times time.sleep was called
    heads,      \* the status codes of the HEAD requests, in order
    fn_in,      \* the argument of a function applied on its own
    fn_out      \* its value

vars == <<PY2, argv, pc, call, listing, elems, keys, best, output, raised,
          stdout, exit_code, git_calls, gets, sleeps, heads, fn_in, fn_out>>

NoCall == [func |-> "", pattern |-> DEFAULT_VERSION_PATTERN,
           url_to_verify |-> FALSE, multiple_versions |-> FALSE]

\* what a run starts from, apart from the interpreter and the command line
Fresh ==
    /\ call = NoCall
    /\ listing = <<>>
    /\ elems = <<>>
    /\ keys = <<>>
    /\ best = 0
    /\ output = NotFound
    /\ raised = ""
    /\ stdout = <<>>
    /\ exit_code = -1
    /\ git_calls = 0
    /\ gets = <<>>
    /\ sleeps = 0
    /\ heads = <<>>

Init ==
    /\ PY2 \in BOOLEAN
    /\ argv \in CommandLines
    /\ pc = "parse_arguments"
    /\ Fresh
    /\ fn_in = <<>>
    /\ fn_out = <<>>

\* --------------------------------------------------------- parse_arguments
\* argument_to_value_count_range[key]
argument_to_value_count_range(key) ==
    IF key = "last_git_tag" THEN <<1, 3>> ELSE <<2, 4>>

\* the upper end of the range not checked
InValueRangeNoUpper(key, n) == argument_to_value_count_range(key)[1] <= n

\* value_range[0] <= len(values) <= value_range[1]
InValueRange(key, n) ==
    /\ argument_to_value_count_range(key)[1] <= n
    /\ n <= argument_to_value_count_range(key)[2]

\* tuple(v if v != "" else None for v in value_string.split(","))
NoneArg == "None"
Values(option) ==
    [i \in 1..Len(option.values) |->
        IF option.values[i] = "" THEN NoneArg ELSE option.values[i]]

\* the i-th positional parameter of a call, None when it is left out
Param(values, i) == IF i <= Len(values) THEN values[i] ELSE NoneArg

\* the pattern a function uses for its optional pattern parameter
PatternOf(optional_pattern) ==
    IF optional_pattern = NoneArg THEN DEFAULT_VERSION_PATTERN ELSE NoGroupPattern

\* An uncaught exception ends the run: traceback on stderr, exit status 1.
Raise(exception) ==
    /\ raised' = exception
    /\ exit_code' = 1
    /\ pc' = "exit"

\* parse_arguments(): every given action option is split and its count of
\* values checked; without an action the usage is printed and the run exits.
ParseArguments ==
    /\ pc = "parse_arguments"
    /\ IF \/ /\ argv.last_git_tag.given
             /\ ~InValueRange("last_git_tag", Len(argv.last_git_tag.values))
          \/ /\ argv.last_website_version.given
             /\ ~InValueRange("last_website_version", Len(argv.last_website_version.values))
       THEN Raise("InvalidArgumentCount")
       ELSE IF ~argv.last_git_tag.given /\ ~argv.last_website_version.given
            THEN /\ exit_code' = 1
                 /\ pc' = "exit"
                 /\ UNCHANGED raised
            ELSE /\ pc' = "main"
                 /\ UNCHANGED <<raised, exit_code>>
    /\ UNCHANGED <<PY2, argv, call, listing, elems, keys, best, output, stdout,
                   git_calls, gets, sleeps, heads, fn_in, fn_out>>

\* main(), the loop over args: the first action of the namespace is called
\* with its values as positional parameters, then the loop is left.
MainCall ==
    /\ pc = "main"
    /\ IF argv.last_git_tag.given
       THEN LET values == Values(argv.last_git_tag)
            IN  /\ call' = [func |-> "last_git_tag",
                            pattern |-> PatternOf(Param(values, 2)),
                            url_to_verify |-> Param(values, 3) # NoneArg,
                            multiple_versions |-> argv.multi_version]
                /\ pc' = "ls_remote"
       ELSE LET values == Values(argv.last_website_version)
            IN  /\ call' = [func |-> "last_website_version",
                            pattern |-> PatternOf(Param(values, 4)),
                            url_to_verify |-> FALSE,
                            multiple_versions |-> argv.multi_version]
                /\ pc' = "get"
    /\ UNCHANGED <<PY2, argv, listing, elems, keys, best, output, raised, stdout,
                   exit_code, git_calls, gets, sleeps, heads, fn_in, fn_out>>

\* ------------------------------------------------------ the source functions
\* the variables no source function touches
Outside == <<PY2, argv, call, stdout, fn_in, fn_out>>

\* an empty list returned instead of None
CollectedEmptyList(filtered) ==
    /\ elems' = filtered
    /\ IF Len(filtered) = 0
       THEN /\ output' = [found |-> TRUE, versions |-> <<>>]
            /\ pc' = "returned"
       ELSE /\ pc' = IF call.multiple_versions THEN "sorted" ELSE "max"
            /\ UNCHANGED output

\* if filtered_tags: ... else: return None -- where the function goes once
\* the matches are collected
Collected(filtered) ==
    /\ elems' = filtered
    /\ IF Len(filtered) = 0
       THEN /\ output' = NotFound
            /\ pc' = "returned"
       ELSE /\ pc' = IF call.multiple_versions THEN "sorted" ELSE "max"
            /\ UNCHANGED output

\* last_git_tag: git ls-remote --tags is run once; it fails (check_output
\* raises) or lists the tags, which are matched against the search pattern.
GitLsRemote ==
    /\ pc = "ls_remote"
    /\ git_calls' = git_calls + 1
    /\ \/ /\ Raise("CalledProcessError")
          /\ UNCHANGED <<listing, elems, output>>
       \/ \E all_tags \in Listings(TagPool) :
             /\ listing' = all_tags
             /\ Collected(FilterTags(SearchPattern(call.pattern), all_tags))
             /\ UNCHANGED <<raised, exit_code>>
    /\ UNCHANGED <<Outside, keys, best, gets, sleeps, heads>>

\* if response.status_code == 200: break
Downloaded(status_code) == status_code = HTTP_OK

\* one pass too many
TriesLeftOffByOne(n) == n <= MAX_TRIES_FOR_PAGE_DOWNLOAD

\* for _ in range(MAX_TRIES_FOR_PAGE_DOWNLOAD): whether a pass follows n passes
TriesLeft(n) == n < MAX_TRIES_FOR_PAGE_DOWNLOAD

\* last_website_version, one pass of the download loop up to the test of the
\* status code: a 200 leaves the loop.
PageGet ==
    /\ pc = "get"
    /\ \E status_code \in StatusCodes :
          /\ gets' = Append(gets, status_code)
          /\ pc' = IF Downloaded(status_code) THEN "parse_page" ELSE "sleep"
    /\ UNCHANGED <<Outside, listing, elems, keys, best, output, raised,
                   exit_code, git_calls, sleeps, heads>>

\* The rest of a failed pass: time.sleep, then the next pass, or the else
\* clause of the loop once MAX_TRIES_FOR_PAGE_DOWNLOAD passes are done.
PageSleep ==
    /\ pc = "sleep"
    /\ sleeps' = sleeps + 1
    /\ IF TriesLeft(Len(gets))
       THEN /\ pc' = "get"
            /\ UNCHANGED <<raised, exit_code>>
       ELSE Raise("HTTPError")
    /\ UNCHANGED <<Outside, listing, elems, keys, best, output,
                   git_calls, gets, heads>>

\* The page is parsed, the selector applied and the texts of the selected
\* tags are normalized and matched against the version pattern.
PageParse ==
    /\ pc = "parse_page"
    /\ \E version_texts \in Listings(TextPool) :
          /\ listing' = version_texts
          /\ Collected(FilterVersions(call.pattern, version_texts))
    /\ UNCHANGED <<Outside, keys, best, raised, exit_code,
                   git_calls, gets, sleeps, heads>>

\* What computing a key may meet: the status code of the HEAD request that
\* url_verifier sends, or 0 for no request without a url to verify.
Answers == IF call.url_to_verify THEN StatusCodes ELSE {0}

\* sort_key(elem), given what it met
SortKey(elem, status_code) ==
    IF call.url_to_verify THEN modified_key_func(elem, status_code)
    ELSE TupleKey(default_sort_key(elem))

\* the HEAD requests after the key of one more element is computed
Probed(status_code) ==
    IF call.url_to_verify THEN Append(heads, status_code) ELSE heads

\* max(filtered, key=sort_key), one element: its key is computed and compared
\* with the key of the maximum kept so far, which it replaces when greater.
MaxStep ==
    /\ pc = "max"
    /\ Len(keys) < Len(elems)
    /\ \E status_code \in Answers :
          LET key == SortKey(elems[Len(keys) + 1], status_code)
          IN  /\ heads' = Probed(status_code)
              /\ keys' = Append(keys, key)
              /\ IF best = 0
                 THEN /\ best' = Len(keys) + 1
                      /\ UNCHANGED <<raised, exit_code, pc>>
                 ELSE IF CompareRaises(PY2, key, keys[best])
                      THEN /\ Raise("TypeError")
                           /\ UNCHANGED best
                      ELSE /\ best' = IF Greater(key, keys[best])
                                      THEN Len(keys) + 1 ELSE best
                           /\ UNCHANGED <<raised, exit_code, pc>>
    /\ UNCHANGED <<Outside, listing, elems, output, git_calls, gets, sleeps>>

\* return [last_tag.complete_match]
MaxReturn ==
    /\ pc = "max"
    /\ Len(keys) = Len(elems)
    /\ output' = Found(<<elems[best].complete_match>>)
    /\ pc' = "returned"
    /\ UNCHANGED <<Outside, listing, elems, keys, best, raised,
                   exit_code, git_calls, gets, sleeps, heads>>

\* sorted(filtered, key=sort_key, reverse=True) first computes every key
SortedKey ==
    /\ pc = "sorted"
    /\ Len(keys) < Len(elems)
    /\ \E status_code \in Answers :
          /\ heads' = Probed(status_code)
          /\ keys' = Append(keys, SortKey(elems[Len(keys) + 1], status_code))
    /\ UNCHANGED <<Outside, listing, elems, best, output, raised,
                   exit_code, pc, git_calls, gets, sleeps>>

\* ... then sorts, and the first three complete matches are returned
SortedReturn ==
    /\ pc = "sorted"
    /\ Len(keys) = Len(elems)
    /\ IF SortRaises(PY2, keys)
       THEN /\ Raise("TypeError")
            /\ UNCHANGED output
       ELSE /\ output' = Found(TopMatches(elems, keys))
            /\ pc' = "returned"
            /\ UNCHANGED <<raised, exit_code>>
    /\ UNCHANGED <<Outside, listing, elems, keys, best,
                   git_calls, gets, sleeps, heads>>

\* main(), after the call: the output is printed, one version per line, and
\* the exit status tells whether there was one.
MainExit ==
    /\ pc = "returned"
    /\ IF output.found
       THEN /\ stdout' = output.versions
            /\ exit_code' = 0
       ELSE /\ exit_code' = 1
            /\ UNCHANGED stdout
    /\ pc' = "exit"
    /\ UNCHANGED <<PY2, argv, call, listing, elems, keys, best, output, raised,
                   git_calls, gets, sleeps, heads, fn_in, fn_out>>

Next ==
    \/ ParseArguments
    \/ MainCall
    \/ GitLsRemote
    \/ PageGet
    \/ PageSleep
    \/ PageParse
    \/ MaxStep
    \/ MaxReturn
    \/ SortedKey
    \/ SortedReturn
    \/ MainExit

Spec == Init /\ [][Next]_vars

\* ------------------------------------------- functions applied on their own
\* the sequences of at most n elements of a set
SeqsUpTo(set, n) == UNION {[1..k -> set] : k \in 0..n}

\* the concatenation of a sequence of strings
RECURSIVE Concat(_)
Concat(ss) == IF Len(ss) = 0 THEN <<>> ELSE Head(ss) \o Concat(Tail(ss))

\* The texts of html tags handed to remove_path_components: a directory part,
\* a name, at most MaxExtensions extensions (the known ones, gz and txt) and
\* possibly a closing slash.
Directories == {<<>>, <<"d","l","/">>, <<"a",".","z","i","p","/">>}
Names == {<<"p","r","o","j","e","c","t","-","2",".","3",".","1">>, <<"v","1">>, <<>>}
Extensions ==
    {<<".">> \o KNOWN_FILE_EXTENSIONS[i] : i \in 1..Len(KNOWN_FILE_EXTENSIONS)}
    \cup {<<".","g","z">>, <<".","t","x","t">>}
FilePaths ==
    {d \o n \o Concat(e) \o t :
        d \in Directories, n \in Names, e \in SeqsUpTo(Extensions, MaxExtensions),
        t \in {<<>>, <<"/">>}}

InitNormalize ==
    /\ PY2 = FALSE
    /\ argv = [last_git_tag |-> NotGiven, last_website_version |-> NotGiven,
               multi_version |-> FALSE]
    /\ pc = "apply"
    /\ Fresh
    /\ fn_in \in FilePaths
    /\ fn_out = <<>>

\* re.search(version_pattern, remove_path_components(version_text)) with the
\* default pattern
Normalize ==
    /\ pc = "apply"
    /\ fn_out' = [normalized |-> remove_path_components(fn_in),
                  match_obj |-> Search(DEFAULT_VERSION_PATTERN,
                                       remove_path_components(fn_in))]
    /\ pc' = "done"
    /\ UNCHANGED <<PY2, argv, call, listing, elems, keys, best, output, raised,
                   stdout, exit_code, git_calls, gets, sleeps, heads, fn_in>>

NextNormalize == Normalize

SpecNormalize == InitNormalize /\ [][NextNormalize]_vars

\* The groups of a match handed to default_sort_key: None, digit strings
\* (09 with a leading zero) and the text rc.
GroupPool ==
    {None, Some(<<"0">>), Some(<<"2">>), Some(<<"9">>), Some(<<"0","9">>),
     Some(<<"1","0">>), Some(<<"r","c">>)}

\* the groups of v2.9.0
Groups_2_9_0 == <<Some(<<"2">>), Some(<<"9">>), Some(<<"0">>)>>

InitSortKey ==
    /\ PY2 = FALSE
    /\ argv = [last_git_tag |-> NotGiven, last_website_version |-> NotGiven,
               multi_version |-> FALSE]
    /\ pc = "apply"
    /\ Fresh
    /\ fn_in \in [groups : SeqsUpTo(GroupPool, MaxGroups),
                  other : [1..1 -> GroupPool] \cup {Groups_2_9_0}]
    /\ fn_out = <<>>

\* default_sort_key applied to two matches
ApplySortKey ==
    /\ pc = "apply"
    /\ fn_out' = [key |-> default_sort_key(VersionMatch(<<>>, fn_in.groups)),
                  other |-> default_sort_key(VersionMatch(<<>>, fn_in.other))]
    /\ pc' = "done"
    /\ UNCHANGED <<PY2, argv, call, listing, elems, keys, best, output, raised,
                   stdout, exit_code, git_calls, gets, sleeps, heads, fn_in>>

NextSortKey == ApplySortKey

SpecSortKey == InitSortKey /\ [][NextSortKey]_vars

\* ================================================================== claims
\* a >= b on tuples of integers, by the first component that differs; what is
\* left of the longer tuple decides when there is none
RECURSIVE TupleGeq(_, _)
TupleGeq(a, b) ==
    IF Len(b) = 0 THEN TRUE
    ELSE IF Len(a) = 0 THEN FALSE
    ELSE \/ Head(a).n > Head(b).n
         \/ Head(a).n = Head(b).n /\ TupleGeq(Tail(a), Tail(b))

\* sub is a run of consecutive characters of s
Occurs(sub, s) == \E i \in 1..(Len(s) + 1) : StartsWith(Suffix(s, i), sub)

\* the default sort key tuple of the i-th matched candidate
KeyTuple(i) == default_sort_key(elems[i])

\* the text names used below
V1_0_0 == <<"v","1",".","0",".","0">>
V1_2_0 == <<"v","1",".","2",".","0">>
V1_10_0 == <<"v","1",".","1","0",".","0">>
V1_2 == <<"v","1",".","2">>
Peeled == <<"v","1",".","1","0",".","0","^","{","}">>

\* the source function has returned
Returned == pc = "returned"

\* the source function is over: it returned or an exception ended the run
Over == pc \in {"returned", "exit"} /\ call.func # ""

\* the matched candidates whose HEAD request was answered with 200
Verified == {i \in 1..Len(elems) : i <= Len(heads) /\ heads[i] = HTTP_OK}

\* every matched candidate was probed
AllProbed == Len(heads) = Len(elems)

\* whether the complete match cm is that of a verified candidate
IsVerified(cm) == \E i \in Verified : elems[i].complete_match = cm

\* what C1 says of a returned list: one element, the complete match of a
\* matched candidate (the end of a listed ref, a part of a selected text)
\* with a default sort key tuple >= that of every matched candidate
SingleMaximum ==
    /\ output.found
    /\ Len(output.versions) = 1
    /\ \E i \in 1..Len(elems) :
          /\ elems[i].complete_match = output.versions[1]
          /\ \A j \in 1..Len(elems) : TupleGeq(KeyTuple(i), KeyTuple(j))
    /\ \E k \in 1..Len(listing) :
          IF call.func = "last_git_tag" THEN EndsWith(listing[k], output.versions[1])
          ELSE Occurs(output.versions[1], listing[k])

\* C1 as claimed: in single-result mode, for every non-empty list of matched
\* candidates, the source function returns a one-element list whose element
\* is the complete match of a candidate with a default sort key tuple >= that
\* of every matched candidate. It is stated of the calls that return and,
\* given a url to verify, found some candidate verified (the others are the
\* subject of C3 and C4).
C1_SingleResultIsMaximum ==
    (/\ Returned /\ ~call.multiple_versions /\ Len(elems) > 0
     /\ call.url_to_verify => (AllProbed /\ Verified # {}))
    => SingleMaximum

\* C1 as amended: the same, for the calls without a url to verify.
C1_SingleResultIsMaximumWithoutUrlToVerify ==
    (Over /\ ~call.multiple_versions /\ ~call.url_to_verify /\ Len(elems) > 0)
    => SingleMaximum

\* C1 witness: v1.2 (two components), a rejected entry, v1.10.0 and v1.2.0
\* are listed and last_git_tag returned [v1.10.0].
C1_Witness ==
    /\ Returned
    /\ call.func = "last_git_tag"
    /\ ~call.multiple_versions /\ ~call.url_to_verify /\ call.pattern.capture
    /\ listing = <<Line(V1_2), Line(Peeled), Line(V1_10_0), Line(V1_2_0)>>
    /\ output = Found(<<V1_10_0>>)

\* the one-to-one choices of n of the matched candidates, in result order
Choices(n) ==
    {p \in [1..n -> 1..Len(elems)] : \A r, q \in 1..n : r # q => p[r] # p[q]}

\* a >= b on the sort keys in use: tuples of integers, and False below them
SortKeyGeq(a, b) == IF a.ok /\ b.ok THEN TupleGeq(a.t, b.t) ELSE a.ok \/ ~b.ok

\* What C2 says of a returned list, given the sort keys of the candidates:
\* min(3, n) complete matches of distinct candidates, in non-increasing key
\* order, no candidate left out having a greater key than one returned.
TopThree(ks) ==
    /\ output.found
    /\ Len(output.versions) = (IF Len(elems) < 3 THEN Len(elems) ELSE 3)
    /\ \E p \in Choices(Len(output.versions)) :
          /\ \A r \in 1..Len(output.versions) :
                output.versions[r] = elems[p[r]].complete_match
          /\ \A r, q \in 1..Len(output.versions) :
                r < q => SortKeyGeq(ks[p[r]], ks[p[q]])
          /\ \A j \in 1..Len(elems) :
                (\A r \in 1..Len(output.versions) : p[r] # j)
                => \A r \in 1..Len(output.versions) : SortKeyGeq(ks[p[r]], ks[j])

\* C2: in multi-result mode, once the function is over with n >= 1 matched
\* candidates, the result holds exactly min(3, n) complete matches in
\* non-increasing order of their sort keys, and no candidate left out has a
\* key greater than one returned; v1.0.0, v1.2.0, v1.10.0 give
\* [v1.10.0, v1.2.0, v1.0.0].
C2_MultiResultTopThree ==
    (Over /\ call.multiple_versions /\ Len(elems) >= 1)
    => /\ Len(keys) = Len(elems)
       /\ TopThree(keys)
       /\ (/\ listing = <<Line(V1_0_0), Line(V1_2_0), Line(V1_10_0)>>
           /\ call.pattern.capture /\ ~call.url_to_verify)
          => output.versions = <<V1_10_0, V1_2_0, V1_0_0>>

\* What C2 states does hold of the calls that raise no TypeError, those
\* without a url to verify among them.
C2_UnlessTypeError == raised # "TypeError" => C2_MultiResultTopThree

\* Four tags matched and last_git_tag returned the three of greatest key;
\* v1.0.0 is left out.
C2_FourTagsListed ==
    /\ Returned
    /\ call.multiple_versions /\ ~call.url_to_verify /\ call.pattern.capture
    /\ listing = <<Line(V1_0_0), Line(V1_2), Line(V1_10_0), Line(V1_2_0)>>
    /\ output = Found(<<V1_10_0, V1_2_0, V1_2>>)

\* C3: with a url to verify, once last_git_tag is over with every candidate
\* probed and at least one verified: in single-result mode, when a candidate
\* of greatest key is not verified, the result is the verified candidate of
\* greatest key; in multi-result mode there is a result and no unverified
\* candidate precedes a verified one in it.
C3_UnverifiedSortBelowVerified ==
    (Over /\ call.url_to_verify /\ AllProbed /\ Verified # {})
    => /\ (/\ ~call.multiple_versions
           /\ \E i \in 1..Len(elems) :
                 i \notin Verified /\ \A j \in 1..Len(elems) : TupleGeq(KeyTuple(i), KeyTuple(j)))
          => /\ output.found
             /\ \E i \in Verified :
                   /\ output.versions = <<elems[i].complete_match>>
                   /\ \A j \in Verified : TupleGeq(KeyTuple(i), KeyTuple(j))
       /\ call.multiple_versions
          => /\ output.found
             /\ \A r, q \in 1..Len(output.versions) :
                   (r < q /\ IsVerified(output.versions[q])) => IsVerified(output.versions[r])

\* What C3 states does hold of the runs under Python 2, where False is less
\* than any tuple.
C3_OnPython2 == PY2 => C3_UnverifiedSortBelowVerified

\* C4: with a url to verify, when tags matched and none of the probes was
\* answered with 200, last_git_tag returns no version.
C4_NoneVerifiedIsNotFound ==
    (Over /\ call.url_to_verify /\ Len(elems) > 0 /\ AllProbed /\ Verified = {})
    => ~output.found

\* the run is in last_website_version, past the download loop
PageDownloaded ==
    /\ call.func = "last_website_version"
    /\ \/ pc \in {"parse_page", "max", "sorted", "returned"}
       \/ pc = "exit" /\ raised # "HTTPError"

\* C5: the page download sends at most 3 GET requests and none after one
\* answered with 200; the function goes on only with a last answer of 200;
\* after three other answers it raises the download error, with nothing
\* selected, matched, returned or printed.
C5_DownloadStopsAtFirst200 ==
    /\ Len(gets) <= 3
    /\ \A i \in 1..(Len(gets) - 1) : gets[i] # 200
    /\ PageDownloaded => (Len(gets) >= 1 /\ gets[Len(gets)] = 200)
    /\ (Len(gets) = 3 /\ gets[3] # 200 /\ pc \notin {"get", "sleep"})
       => raised = "HTTPError"
    /\ raised = "HTTPError"
       => /\ Len(gets) = 3 /\ \A i \in 1..3 : gets[i] # 200
          /\ listing = <<>> /\ elems = <<>> /\ keys = <<>>
          /\ ~output.found /\ stdout = <<>> /\ exit_code = 1 /\ pc = "exit"

\* C5 witness: two failed attempts, the third answered with 200, and the
\* function returned versions.
C5_Witness ==
    /\ call.func = "last_website_version"
    /\ gets = <<404, 404, 200>>
    /\ Returned /\ output.found

OutOfRange(option, lo, hi) ==
    option.given /\ (Len(option.values) < lo \/ Len(option.values) > hi)

\* the command line gives some action a count of values outside its range
BadCount ==
    \/ OutOfRange(argv.last_git_tag, 1, 3)
    \/ OutOfRange(argv.last_website_version, 2, 4)

\* C9: with a count of values outside 1..3 for last_git_tag or 2..4 for
\* last_website_version no source function is ever called and no git
\* listing, GET or HEAD request is made; InvalidArgumentCount is raised
\* for these command lines and for no other.
C9_InvalidCountRaisesBeforeAnyCall ==
    /\ BadCount => /\ call = NoCall
                   /\ git_calls = 0 /\ gets = <<>> /\ heads = <<>>
                   /\ pc \in {"parse_arguments", "exit"}
    /\ pc # "parse_arguments" => (raised = "InvalidArgumentCount" <=> BadCount)

\* C9 witness: last_git_tag was given four values and the run ended with
\* InvalidArgumentCount.
C9_Witness ==
    /\ pc = "exit" /\ raised = "InvalidArgumentCount"
    /\ argv.last_git_tag.given /\ Len(argv.last_git_tag.values) = 4
    /\ ~argv.last_website_version.given

\* the known extensions, with their dots
DottedExtensions ==
    { <<".","g","z","i","p">>, <<".","t","a","r">>, <<".","t","g","z">>,
      <<".","t","a","r",".","g","z">>, <<".","t","a","r",".","b","z","2">>,
      <<".","t","a","r",".","x","z">>, <<".","z","i","p">> }

\* b is the final path component of path: what follows its last slash
FinalComponent(b, path) ==
    \E k \in 0..Len(path) :
        /\ b = Suffix(path, k + 1)
        /\ \A i \in 1..Len(b) : b[i] # "/"
        /\ k = 0 \/ path[k] = "/"

\* C7: remove_path_components returns the final path component without the
\* longest known extension it ends with, and unchanged when it ends with
\* none; project-2.3.1.tar.gz gives project-2.3.1, in which the default
\* pattern matches 2.3.1.
C7_NormalizationStripsKnownExtension ==
    pc = "done"
    => /\ \E b \in {Suffix(fn_in, k) : k \in 1..(Len(fn_in) + 1)} :
             /\ FinalComponent(b, fn_in)
             /\ LET ends == {e \in DottedExtensions : EndsWith(b, e)}
                IN  IF ends = {} THEN fn_out.normalized = b
                    ELSE \E e \in ends :
                            /\ \A f \in ends : Len(f) <= Len(e)
                            /\ b = fn_out.normalized \o e
       /\ fn_in = <<"p","r","o","j","e","c","t","-","2",".","3",".","1",".","t","a","r",".","g","z">>
          => /\ fn_out.normalized = <<"p","r","o","j","e","c","t","-","2",".","3",".","1">>
             /\ fn_out.match_obj.matched
             /\ fn_out.match_obj.group = <<"2",".","3",".","1">>

\* C7 witness: dl/project-2.3.1.tar.gz was normalized to project-2.3.1.
C7_Witness ==
    /\ pc = "done"
    /\ fn_in = <<"d","l","/","p","r","o","j","e","c","t","-","2",".","3",".","1",".","t","a","r",".","g","z">>
    /\ fn_out.normalized = <<"p","r","o","j","e","c","t","-","2",".","3",".","1">>

\* the groups that are present, in order
Present(groups) == SelectSeq(groups, LAMBDA g : g.some)

\* c is a run of one or more decimal digits
AllDigits(c) == c # <<>> /\ \A i \in 1..Len(c) : c[i] \in {"0","1","2","3","4","5","6","7","8","9"}

\* the digit d as a number
Digit(d) == CHOOSE n \in 0..9 : <<"0","1","2","3","4","5","6","7","8","9">>[n + 1] = d

\* ten to the power k
RECURSIVE Pow10(_)
Pow10(k) == IF k = 0 THEN 1 ELSE 10 * Pow10(k - 1)

\* the number a digit string denotes: the sum of its digits times their weights
RECURSIVE Weighted(_, _)
Weighted(c, i) ==
    IF i > Len(c) THEN 0 ELSE Digit(c[i]) * Pow10(Len(c) - i) + Weighted(c, i + 1)

\* the component is what the group c has to become
ComponentOf(component, c) ==
    IF AllDigits(c) THEN component.isint /\ component.n = Weighted(c, 1)
    ELSE ~component.isint /\ component.s = c

\* the key is the tuple of what the present groups have to become, in order
KeyOf(key, groups) ==
    /\ Len(key) = Len(Present(groups))
    /\ \A i \in 1..Len(key) : ComponentOf(key[i], Present(groups)[i].s)

\* C8: default_sort_key returns the tuple of the groups that are present, in
\* their order, every all-digit group as the integer it denotes and every
\* other group as it is; two components of all-digit groups a and b compare
\* as the numbers a and b do; v2.10.0 gives (2, 10, 0), greater than the
\* (2, 9, 0) of v2.9.0.
C8_DefaultSortKeyIsNumeric ==
    pc = "done"
    => /\ KeyOf(fn_out.key, fn_in.groups)
       /\ KeyOf(fn_out.other, fn_in.other)
       /\ \A i \in 1..Len(fn_out.key), j \in 1..Len(fn_out.other) :
             LET a == Present(fn_in.groups)[i].s
                 b == Present(fn_in.other)[j].s
             IN  (AllDigits(a) /\ AllDigits(b))
                 => (CompLess(fn_out.key[i], fn_out.other[j])
                        <=> Weighted(a, 1) < Weighted(b, 1))
       /\ (/\ fn_in.groups = Search(DEFAULT_VERSION_PATTERN, <<"v","2",".","1","0",".","0">>).groups
           /\ fn_in.other = Search(DEFAULT_VERSION_PATTERN, <<"v","2",".","9",".","0">>).groups)
          => /\ fn_out.key = <<IntComp(2), IntComp(10), IntComp(0)>>
             /\ fn_out.other = <<IntComp(2), IntComp(9), IntComp(0)>>
             /\ TupleLess(fn_out.other, fn_out.key)
             /\ ~TupleLess(fn_out.key, fn_out.other)

\* C8 witness: the groups of v2.10.0 and of v2.9.0 were turned into keys.
C8_Witness ==
    /\ pc = "done"
    /\ fn_in.groups = <<Some(<<"2">>), Some(<<"1","0">>), Some(<<"0">>)>>
    /\ fn_in.other = Groups_2_9_0
    /\ fn_out.key = <<IntComp(2), IntComp(10), IntComp(0)>>

\* the GET requests that were not answered with 200
FailedGets == {i \in 1..Len(gets) : ~Downloaded(gets[i])}

\* C11: in the page download every wait comes after a failed attempt and is
\* followed by a further attempt: a step that waits finds the last GET
\* request answered with something other than 200 and leaves the function
\* about to send the next GET request, so no wait follows a successful
\* attempt and none follows the last of the 3 attempts.
C11_WaitOnlyBetweenFailedAttempts ==
    [][sleeps' # sleeps
       => /\ sleeps' = sleeps + 1
          /\ Len(gets) >= 1 /\ ~Downloaded(gets[Len(gets)])
          /\ pc' = "get" /\ raised' = ""]_vars

\* What the download loop does: a wait follows every failed attempt, the
\* third included, and nothing else; the download error is raised after
\* three waits.
C11_WaitAfterEveryFailedAttempt ==
    /\ sleeps = Cardinality(FailedGets) - (IF pc = "sleep" THEN 1 ELSE 0)
    /\ raised = "HTTPError" => sleeps = MAX_TRIES_FOR_PAGE_DOWNLOAD

\* Three attempts failed, the third wait is over and the download error
\* was raised.
C11_ThirdWaitBeforeError ==
    /\ call.func = "last_website_version"
    /\ gets = <<404, 404, 404>>
    /\ sleeps = 3
    /\ raised = "HTTPError"

\* the tag listing has not completed yet
BeforeListing == pc \in {"parse_arguments", "main", "ls_remote"}

\* What C12 says of a state: no candidate is probed twice and no tag that did
\* not match is probed (there are never more HEAD requests than matched
\* candidates, whatever their urls), none is sent before the listing has
\* completed, none without a url to verify, and once last_git_tag is over
\* there is one HEAD request for each matched candidate, none when no tag
\* matched.
OneHeadPerCandidate ==
    /\ Len(heads) <= Len(elems)
    /\ BeforeListing => heads = <<>>
    /\ ~call.url_to_verify => heads = <<>>
    /\ (Over /\ call.url_to_verify) => Len(heads) = Len(elems)

\* C12: with a url to verify, last_git_tag sends exactly one HEAD request for
\* each candidate that matched the pattern, in both modes, one request at a
\* time and in the order of the candidates: none is repeated (a non-200
\* answer is final), none concerns a tag that did not match, none precedes
\* the end of the tag listing, and none is sent when no tag matched.
C12_OneHeadPerMatchedCandidate ==
    /\ []OneHeadPerCandidate
    /\ [][heads' # heads
          => /\ Len(heads') = Len(heads) + 1
             /\ SubSeq(heads', 1, Len(heads)) = heads
             /\ Len(keys') = Len(heads')]_vars

\* What C12 states does hold of every run but those of single-result mode
\* that end in the TypeError of max.
C12_UnlessMaxRaises ==
    (raised = "TypeError" /\ ~call.multiple_versions) \/ OneHeadPerCandidate

\* Three tags matched, the first was verified, the second was not, and max
\* raised TypeError before the third was probed.
C12_ThirdCandidateNotProbed ==
    /\ call.func = "last_git_tag"
    /\ call.url_to_verify /\ ~call.multiple_versions
    /\ Len(elems) = 3
    /\ heads = <<HTTP_OK, 404>>
    /\ raised = "TypeError"

\* the complete matches of the first n matched candidates, in source order
FirstMatched(n) == [r \in 1..n |-> elems[r].complete_match]

\* What C13 says of a call with matched candidates: default_sort_key gives
\* the empty tuple for each of them, and the result is the first matched
\* candidate in single-result mode, the first min(3, n) matched candidates
\* in source order in multi-result mode; of the tags v1.0.0, v1.10.0^{},
\* v1.10.0, v1.2.0 the second does not match and the result is [v1.0.0],
\* resp. [v1.0.0, v1.10.0, v1.2.0].
RankingDisabled ==
    /\ \A i \in 1..Len(elems) : KeyTuple(i) = <<>>
    /\ output.found
    /\ IF call.multiple_versions
       THEN output.versions = FirstMatched(IF Len(elems) < 3 THEN Len(elems) ELSE 3)
       ELSE output.versions = FirstMatched(1)
    /\ listing = <<Line(V1_0_0), Line(Peeled), Line(V1_10_0), Line(V1_2_0)>>
       => output.versions = IF call.multiple_versions THEN <<V1_0_0, V1_10_0, V1_2_0>>
                            ELSE <<V1_0_0>>

\* C13 as claimed: when the pattern has no capture groups, a call that
\* returns with matched candidates returns the first of them in
\* single-result mode and the first min(3, n) of them, in source order, in
\* multi-result mode, the key of every candidate being the empty tuple.
C13_NoGroupsKeepSourceOrder ==
    (Returned /\ ~call.pattern.capture /\ Len(elems) > 0) => RankingDisabled

\* C13 as amended: the same, for the calls without a url to verify, none of
\* which raises.
C13_NoGroupsKeepSourceOrderWithoutUrlToVerify ==
    (Over /\ ~call.pattern.capture /\ ~call.url_to_verify /\ Len(elems) > 0)
    => RankingDisabled

\* C13 witness: the pattern has no groups, v1.0.0, v1.10.0^{}, v1.10.0 and
\* v1.2.0 are listed and multi-result mode returned the three matches as
\* listed, v1.10.0 before v1.2.0 and after v1.0.0.
C13_Witness ==
    /\ Returned
    /\ call.func = "last_git_tag"
    /\ call.multiple_versions /\ ~call.url_to_verify /\ ~call.pattern.capture
    /\ listing = <<Line(V1_0_0), Line(Peeled), Line(V1_10_0), Line(V1_2_0)>>
    /\ keys = <<TupleKey(<<>>), TupleKey(<<>>), TupleKey(<<>>)>>
    /\ output = Found(<<V1_0_0, V1_10_0, V1_2_0>>)

\* the tag 1.10.0, whose key is that of v1.10.0
Plain1_10_0 == <<"1",".","1","0",".","0">>

\* candidate i has a key that none exceeds and that every earlier candidate
\* is below: the earliest candidate of maximal key
EarliestMaximal(i) ==
    /\ \A j \in 1..Len(elems) : ~KeyLess(keys[i], keys[j])
    /\ \A j \in 1..(i - 1) : KeyLess(keys[j], keys[i])

\* C14: for the same matched candidates and the same sort keys, what
\* single-result mode returns is the first element of what multi-result mode
\* returns, and both are the complete match of the earliest candidate of
\* maximal key: when single-result mode has returned, sorting the same
\* candidates by the same keys raises nothing and puts the returned
\* candidate first; when multi-result mode has returned, no two keys are such
\* that max would raise on them, and the first element is the earliest
\* candidate of maximal key.
C14_SingleIsFirstOfMulti ==
    (Returned /\ Len(elems) > 0)
    => /\ Len(keys) = Len(elems)
       /\ output.found /\ Len(output.versions) >= 1
       /\ \A i, j \in 1..Len(keys) : ~CompareRaises(PY2, keys[i], keys[j])
       /\ ~SortRaises(PY2, keys)
       /\ ~call.multiple_versions
          => output.versions = <<TopMatches(elems, keys)[1]>>
       /\ \E i \in 1..Len(elems) :
             /\ EarliestMaximal(i)
             /\ output.versions[1] = elems[i].complete_match
             /\ ~call.multiple_versions => best = i
             /\ call.multiple_versions => Sorted(keys)[1] = i

\* C14 witness: v1.2.0, v1.10.0 and 1.10.0 are listed, the last two with
\* the same maximal key (1, 10, 0), and single-result mode returned
\* [v1.10.0], the earlier of them.
C14_Witness ==
    /\ Returned
    /\ call.func = "last_git_tag"
    /\ ~call.multiple_versions /\ call.pattern.capture
    /\ listing = <<Line(V1_2_0), Line(V1_10_0), Line(Plain1_10_0)>>
    /\ keys[2] = keys[3]
    /\ output = Found(<<V1_10_0>>)

====
